---------------------------- MODULE Spec2Model ----------------------------
(***************************************************************************)
(* Model of SolarSystem3D (src/src/main.cpp): the camera state machine     *)
(* driven by the render loop and the GLFW mouse/scroll callbacks, the      *)
(* per-frame orbital kinematics, and the sphere mesh generator.            *)
(*                                                                         *)
(* Number representation (the program uses IEEE floats; rounding is not    *)
(* modelled, comparisons and clamps are exact as in the code):             *)
(*   orbitYaw, orbitPitch          hundredths of a degree                  *)
(*   orbitDistance                 tenths of a unit                        *)
(*   cursor positions, offsets     whole pixels / whole scroll ticks       *)
(*   camera.Zoom                   whole degrees                           *)
(*   time                          whole seconds                           *)
(*   orbitSpeed, orbitAngle        thousandths of a radian (per second)    *)
(*   orbitRadius                   thousandths of a unit                   *)
(* cos/sin are uninterpreted: a vec3 (cos(a)*r, 0, sin(a)*r) is the term   *)
(* [ang |-> a, rad |-> r] and a vec3 is the sequence of the terms summed.  *)
(***************************************************************************)
EXTENDS Integers, Sequences, FiniteSets, TLC

VARIABLES
    pc,                 \* position of main: "start" (before the first frame),
                        \* "poll" (in glfwPollEvents at the end of a frame)
    cameraMode,         \* enum CameraMode
    followedPlanetIdx,
    qPressedLast, ePressedLast, wasdPressedLast,
    orbitYaw, orbitPitch, orbitDistance,
    firstMouse, lastX, lastY,
    Zoom,               \* camera.Zoom, the free camera's field of view
    lastFrame,          \* time of the latest frame
    orbitAngle,         \* planets[i].orbitAngle, i in 0..9
    earthPos, moonPos,
    drawPos,            \* the pos of each body in the latest frame's draw loop,
                        \* in loop order (body i at position i + 1)
    followPos,          \* the pos of each updateCameraFollow call made by the
                        \* latest frame (none or one)
    sectorCount, stackCount, radius,   \* arguments of createSphere
    sphereVertices, sphereIndices,     \* its output vectors
    meshDone                           \* createSphere has returned

vars == <<pc, cameraMode, followedPlanetIdx, qPressedLast, ePressedLast,
          wasdPressedLast, orbitYaw, orbitPitch, orbitDistance, firstMouse,
          lastX, lastY, Zoom, lastFrame, orbitAngle, earthPos, moonPos,
          drawPos, followPos,
          sectorCount, stackCount, radius, sphereVertices, sphereIndices,
          meshDone>>

cameraVars == <<pc, cameraMode, followedPlanetIdx, qPressedLast, ePressedLast,
                wasdPressedLast, orbitYaw, orbitPitch, orbitDistance,
                firstMouse, lastX, lastY, Zoom, lastFrame, orbitAngle,
                earthPos, moonPos, drawPos, followPos>>

meshVars == <<sectorCount, stackCount, radius, sphereVertices, sphereIndices,
              meshDone>>

---------------------------------------------------------------------------
(* Bounds of the model *)

MaxTime == 1            \* frame times are drawn from 0..MaxTime
MaxYaw == 9000          \* |orbitYaw| is kept within MaxYaw (the code never clamps it)
MaxSectorCount == 5     \* createSphere is applied to sectorCount in 0..MaxSectorCount
MaxStackCount == 5      \* and stackCount in 0..MaxStackCount

\* the keys glfwGetKey reports as pressed in one frame: every combination of
\* a directional key, Q and E, each directional key alone, and all four
KeySamples == (SUBSET {"W", "Q", "E"}) \cup {{"A"}, {"S"}, {"D"}, {"W", "A", "S", "D"}}

\* cursor positions <<xpos, ypos>> delivered to mouse_callback
CursorPositions == {<<-300, -300>>, <<300, 300>>}
\* yoffset values delivered to scroll_callback
ScrollOffsets == {-100, 100}
\* radius arguments of createSphere
Radii == {0, 1}

---------------------------------------------------------------------------
(* Program constants *)

SCR_WIDTH == 1280
SCR_HEIGHT == 720

\* the initializer list assigned to planets: ten bodies, index 0 is the Sun
planets ==
    [i \in 0..9 |->
        CASE i = 0 -> [orbitRadius |-> 0,     orbitSpeed |-> 0,     size |-> 6250]
          [] i = 1 -> [orbitRadius |-> 975,   orbitSpeed |-> 4150,  size |-> 450]
          [] i = 2 -> [orbitRadius |-> 1800,  orbitSpeed |-> 1620,  size |-> 1125]
          [] i = 3 -> [orbitRadius |-> 2500,  orbitSpeed |-> 1000,  size |-> 1250]
          [] i = 4 -> [orbitRadius |-> 200,   orbitSpeed |-> 12000, size |-> 325]
          [] i = 5 -> [orbitRadius |-> 3800,  orbitSpeed |-> 530,   size |-> 675]
          [] i = 6 -> [orbitRadius |-> 13000, orbitSpeed |-> 80,    size |-> 2500]
          [] i = 7 -> [orbitRadius |-> 23950, orbitSpeed |-> 30,    size |-> 2125]
          [] i = 8 -> [orbitRadius |-> 47950, orbitSpeed |-> 11,    size |-> 1500]
          [] i = 9 -> [orbitRadius |-> 75175, orbitSpeed |-> 6,     size |-> 1450]]

\* planets.size()
planetCount == Cardinality(DOMAIN planets)

---------------------------------------------------------------------------
(* Planet switching, main.cpp 230-239 *)

\* variant of previousBody that wraps one step late (< 0 for < 1)
previousBody_ReachesStar(i) == IF i - 1 < 0 THEN 9 ELSE i - 1

\* variant of previousBody that wraps to the first planet
previousBody_WrapToFirst(i) == IF i - 1 < 1 THEN 1 ELSE i - 1

\* followedPlanetIdx--; if (followedPlanetIdx < 1) followedPlanetIdx = 9;
previousBody(i) == IF i - 1 < 1 THEN 9 ELSE i - 1

\* followedPlanetIdx++; if (followedPlanetIdx > 9) followedPlanetIdx = 1;
nextBody(i) == IF i + 1 > 9 THEN 1 ELSE i + 1

\* variant of switchPlanet that steps while a key is held
switchPlanet_LevelTriggered(i, qPressed, qLast, ePressed, eLast) ==
    LET afterQ == IF qPressed THEN previousBody(i) ELSE i
    IN  IF ePressed THEN nextBody(afterQ) ELSE afterQ

\* followedPlanetIdx after the Q block (230-234) and then the E block
\* (235-239) of one frame
switchPlanet(i, qPressed, qLast, ePressed, eLast) ==
    LET afterQ == IF qPressed /\ ~qLast THEN previousBody(i) ELSE i
    IN  IF ePressed /\ ~eLast THEN nextBody(afterQ) ELSE afterQ

\* variant of switchMode in which the Q block does not set the mode
switchMode_QKeepsMode(mode, qPressed, qLast, ePressed, eLast, wasdPressed, wasdLast) ==
    LET afterQE == IF ePressed /\ ~eLast THEN "FOLLOW_PLANET" ELSE mode
    IN  IF afterQE = "FOLLOW_PLANET" /\ wasdPressed /\ ~wasdLast
        THEN "FREE" ELSE afterQE

\* variant of switchMode whose WASD block tests the mode the frame started in
switchMode_WasdTestsOldMode(mode, qPressed, qLast, ePressed, eLast, wasdPressed, wasdLast) ==
    LET afterQE == IF (qPressed /\ ~qLast) \/ (ePressed /\ ~eLast)
                   THEN "FOLLOW_PLANET" ELSE mode
    IN  IF mode = "FOLLOW_PLANET" /\ wasdPressed /\ ~wasdLast
        THEN "FREE" ELSE afterQE

\* variant of switchMode that returns to follow mode when no directional key is down
switchMode_FollowOnRelease(mode, qPressed, qLast, ePressed, eLast, wasdPressed, wasdLast) ==
    LET afterQE == IF (qPressed /\ ~qLast) \/ (ePressed /\ ~eLast) \/ ~wasdPressed
                   THEN "FOLLOW_PLANET" ELSE mode
    IN  IF afterQE = "FOLLOW_PLANET" /\ wasdPressed /\ ~wasdLast
        THEN "FREE" ELSE afterQE

\* cameraMode after the Q block, the E block (230-239) and the WASD block
\* (243-245) of one frame
switchMode(mode, qPressed, qLast, ePressed, eLast, wasdPressed, wasdLast) ==
    LET afterQE == IF (qPressed /\ ~qLast) \/ (ePressed /\ ~eLast)
                   THEN "FOLLOW_PLANET" ELSE mode
    IN  IF afterQE = "FOLLOW_PLANET" /\ wasdPressed /\ ~wasdLast
        THEN "FREE" ELSE afterQE

---------------------------------------------------------------------------
(* Orbital kinematics, main.cpp 251-266 *)

\* glm::vec3(cos(a) * r, 0.0f, sin(a) * r)
polar(a, r) == <<[ang |-> a, rad |-> r]>>

\* variant of animateOrbits that adds to the stored angle (+= for =)
animateOrbits_Accumulate(currentFrame) ==
    [i \in DOMAIN planets |->
        IF i = 0 THEN 0 ELSE orbitAngle[i] + currentFrame * planets[i].orbitSpeed]

\* planets[0].orbitAngle = 0; planets[i].orbitAngle = currentFrame * orbitSpeed
animateOrbits(currentFrame) ==
    [i \in DOMAIN planets |->
        IF i = 0 THEN 0 ELSE currentFrame * planets[i].orbitSpeed]

computeEarthPos(angles) == polar(angles[3], planets[3].orbitRadius)

\* variant of computeMoonPos that reads earthPos before the frame assigns it
computeMoonPos_StaleEarth(earth, angles) ==
    earthPos \o polar(angles[4], planets[4].orbitRadius)

computeMoonPos(earth, angles) == earth \o polar(angles[4], planets[4].orbitRadius)

\* pos of body i in the draw loop, main.cpp 334-357; earth is the global
\* earthPos and angles the orbitAngle fields at that point of the frame
drawPosition(i, angles, earth) ==
    IF i = 0 THEN <<>>
    ELSE IF i = 4 THEN earth \o polar(angles[4], planets[4].orbitRadius)
    ELSE IF i = 3 THEN earth
    ELSE polar(angles[i], planets[i].orbitRadius)

\* for (size_t i = 0; i < planets.size(); ++i), main.cpp 332-365
drawPlanets(angles, earth) ==
    [k \in 1..planetCount |-> drawPosition(k - 1, angles, earth)]

\* pos of updateCameraFollow, main.cpp 404-422
updateCameraFollow(idx, angles, earth) ==
    IF idx = 4 THEN earth \o polar(angles[4], planets[4].orbitRadius)
    ELSE IF idx = 3 THEN earth
    ELSE polar(angles[idx], planets[idx].orbitRadius)

---------------------------------------------------------------------------
(* One iteration of the render loop, main.cpp 212-390 (up to glfwPollEvents). *)
(* processInput acts on the window's close flag and on the free camera's     *)
(* position only; closing the window ends a behaviour and adds no state.     *)

Frame ==
    /\ pc \in {"start", "poll"}
    /\ \E currentFrame \in lastFrame..MaxTime, keys \in KeySamples :
        LET wasdPressed == \/ "W" \in keys
                           \/ "A" \in keys
                           \/ "S" \in keys
                           \/ "D" \in keys
            qPressed == "Q" \in keys
            ePressed == "E" \in keys
        IN  \E angles \in {animateOrbits(currentFrame)} :
            \E earth \in {computeEarthPos(angles)} :
            /\ lastFrame' = currentFrame
            /\ pc' = "poll"
            /\ followedPlanetIdx' = switchPlanet(followedPlanetIdx, qPressed, qPressedLast,
                                                 ePressed, ePressedLast)
            /\ cameraMode' = switchMode(cameraMode, qPressed, qPressedLast, ePressed,
                                      ePressedLast, wasdPressed, wasdPressedLast)
            /\ qPressedLast' = qPressed
            /\ ePressedLast' = ePressed
            /\ wasdPressedLast' = wasdPressed
            /\ orbitAngle' = angles
            /\ earthPos' = earth
            /\ moonPos' = computeMoonPos(earth, angles)
            /\ followPos' = IF cameraMode' = "FOLLOW_PLANET"
                            THEN <<updateCameraFollow(followedPlanetIdx', angles, earth)>>
                            ELSE <<>>
            /\ drawPos' = drawPlanets(angles, earth)
    /\ UNCHANGED <<orbitYaw, orbitPitch, orbitDistance, firstMouse, lastX,
                   lastY, Zoom>>
    /\ UNCHANGED meshVars

---------------------------------------------------------------------------
(* GLFW callbacks, dispatched from glfwPollEvents *)

\* variant of clampPitch without the lower clamp
clampPitch_NoLowerClamp(p) == IF p > 8900 THEN 8900 ELSE p

\* if (orbitPitch > 89.0f) orbitPitch = 89.0f; if (orbitPitch < -89.0f) ...
clampPitch(p) == IF p > 8900 THEN 8900 ELSE IF p < -8900 THEN -8900 ELSE p

\* if (orbitDistance < 0.5f) ... ; if (orbitDistance > 30.0f) ...
clampDistance(x) == IF x < 5 THEN 5 ELSE IF x > 300 THEN 300 ELSE x

\* Camera::ProcessMouseScroll of learnopengl/camera.h
ProcessMouseScroll(zoom, yoffset) ==
    LET z == zoom - yoffset
    IN  IF z < 1 THEN 1 ELSE IF z > 45 THEN 45 ELSE z

mouse_callback(xpos, ypos) ==
    LET lx == IF firstMouse THEN xpos ELSE lastX
        ly == IF firstMouse THEN ypos ELSE lastY
        xoffset == xpos - lx
        yoffset == ly - ypos
    IN  /\ pc = "poll"
        /\ firstMouse' = FALSE
        /\ lastX' = xpos
        /\ lastY' = ypos
        /\ IF cameraMode = "FREE"
           THEN \* camera.ProcessMouseMovement: only the free camera changes
                UNCHANGED <<orbitYaw, orbitPitch>>
           ELSE /\ orbitYaw' = orbitYaw + xoffset * 15
                /\ orbitYaw' \in -MaxYaw..MaxYaw
                /\ orbitPitch' = clampPitch(orbitPitch + yoffset * 15)
        /\ UNCHANGED <<pc, cameraMode, followedPlanetIdx, qPressedLast,
                       ePressedLast, wasdPressedLast, orbitDistance, Zoom,
                       lastFrame, orbitAngle, earthPos, moonPos, drawPos,
                       followPos>>
        /\ UNCHANGED meshVars

\* variant of scroll_callback that does not look at the camera mode
scroll_callback_Unrouted(yoffset) ==
    /\ pc = "poll"
    /\ Zoom' = ProcessMouseScroll(Zoom, yoffset)
    /\ orbitDistance' = clampDistance(orbitDistance - yoffset * 2)
    /\ UNCHANGED <<pc, cameraMode, followedPlanetIdx, qPressedLast,
                   ePressedLast, wasdPressedLast, orbitYaw, orbitPitch,
                   firstMouse, lastX, lastY, lastFrame, orbitAngle, earthPos,
                   moonPos, drawPos, followPos>>
    /\ UNCHANGED meshVars

scroll_callback(yoffset) ==
    /\ pc = "poll"
    /\ IF cameraMode = "FREE"
       THEN /\ Zoom' = ProcessMouseScroll(Zoom, yoffset)
            /\ UNCHANGED orbitDistance
       ELSE /\ orbitDistance' = clampDistance(orbitDistance - yoffset * 2)
            /\ UNCHANGED Zoom
    /\ UNCHANGED <<pc, cameraMode, followedPlanetIdx, qPressedLast,
                   ePressedLast, wasdPressedLast, orbitYaw, orbitPitch,
                   firstMouse, lastX, lastY, lastFrame, orbitAngle, earthPos,
                   moonPos, drawPos, followPos>>
    /\ UNCHANGED meshVars

MouseMove == \E cursor \in CursorPositions : mouse_callback(cursor[1], cursor[2])

Scroll == \E yoffset \in ScrollOffsets : scroll_callback(yoffset)

---------------------------------------------------------------------------
(* Sphere mesh generator, createSphere, main.cpp 437-498.                  *)
(* A float pushed to vertices is the term <<component, i, j, radius>>;     *)
(* an index pushed to indices is the unsigned value itself.                *)

\* the eight push_back calls of one (i, j), main.cpp 465-472
vertex(i, j, rad) ==
    << <<"x", i, j, rad>>,  <<"y", i, j, rad>>,  <<"z", i, j, rad>>,
       <<"nx", i, j, rad>>, <<"ny", i, j, rad>>, <<"nz", i, j, rad>>,
       <<"s", i, j, rad>>,  <<"t", i, j, rad>> >>

\* for (j = 0; j <= sectorCount; ++j), main.cpp 453-473
RECURSIVE vertexSectors(_, _, _, _, _)
vertexSectors(vertices, i, j, rad, sectors) ==
    IF j <= sectors
    THEN vertexSectors(vertices \o vertex(i, j, rad), i, j + 1, rad, sectors)
    ELSE vertices

\* variant of vertexStacks that stops one ring early (< for <=)
RECURSIVE vertexStacks_MissingLastRing(_, _, _, _, _)
vertexStacks_MissingLastRing(vertices, i, rad, sectors, stacks) ==
    IF i < stacks
    THEN vertexStacks_MissingLastRing(vertexSectors(vertices, i, 0, rad, sectors),
                                      i + 1, rad, sectors, stacks)
    ELSE vertices

\* for (i = 0; i <= stackCount; ++i), main.cpp 447-474
RECURSIVE vertexStacks(_, _, _, _, _)
vertexStacks(vertices, i, rad, sectors, stacks) ==
    IF i <= stacks
    THEN vertexStacks(vertexSectors(vertices, i, 0, rad, sectors),
                      i + 1, rad, sectors, stacks)
    ELSE vertices

\* variant of quadIndices without the pole rows' special case
quadIndices_NoPoleCase(i, k1, k2, stacks) ==
    <<k1, k2, k1 + 1>> \o <<k1 + 1, k2, k2 + 1>>

\* the triangles of one quad, main.cpp 484-495; i < stackCount here, so
\* the unsigned stackCount - 1 does not wrap
quadIndices(i, k1, k2, stacks) ==
    (IF i # 0 THEN <<k1, k2, k1 + 1>> ELSE <<>>)
    \o (IF i # stacks - 1 THEN <<k1 + 1, k2, k2 + 1>> ELSE <<>>)

\* for (j = 0; j < sectorCount; ++j, ++k1, ++k2), main.cpp 482-496
RECURSIVE indexSectors(_, _, _, _, _, _, _)
indexSectors(indices, i, j, k1, k2, sectors, stacks) ==
    IF j < sectors
    THEN indexSectors(indices \o quadIndices(i, k1, k2, stacks),
                      i, j + 1, k1 + 1, k2 + 1, sectors, stacks)
    ELSE indices

\* for (i = 0; i < stackCount; ++i), main.cpp 477-497
RECURSIVE indexStacks(_, _, _, _)
indexStacks(indices, i, sectors, stacks) ==
    IF i < stacks
    THEN LET k1 == i * (sectors + 1)
             k2 == k1 + sectors + 1
         IN  indexStacks(indexSectors(indices, i, 0, k1, k2, sectors, stacks),
                         i + 1, sectors, stacks)
    ELSE indices

\* createSphere(sphereVertices, sphereIndices, radius, sectorCount, stackCount)
createSphere ==
    /\ ~meshDone
    /\ sphereVertices' = vertexStacks(sphereVertices, 0, radius, sectorCount, stackCount)
    /\ sphereIndices' = indexStacks(sphereIndices, 0, sectorCount, stackCount)
    /\ meshDone' = TRUE
    /\ UNCHANGED <<sectorCount, stackCount, radius>>
    /\ UNCHANGED cameraVars

---------------------------------------------------------------------------
(* The state after static initialisation of the globals, main.cpp 26-71 *)

InitCamera ==
    /\ pc = "start"
    /\ cameraMode = "FOLLOW_PLANET"
    /\ followedPlanetIdx = 3
    /\ qPressedLast = FALSE
    /\ ePressedLast = FALSE
    /\ wasdPressedLast = FALSE
    /\ orbitYaw = 0
    /\ orbitPitch = 2000
    /\ orbitDistance = 30
    /\ firstMouse = TRUE
    /\ lastX = SCR_WIDTH \div 2
    /\ lastY = SCR_HEIGHT \div 2
    /\ Zoom = 45
    /\ lastFrame = 0
    /\ orbitAngle = [i \in DOMAIN planets |-> 0]
    /\ earthPos = <<>>
    /\ moonPos = <<>>
    /\ drawPos = <<>>
    /\ followPos = <<>>

InitMesh ==
    /\ sectorCount = 0
    /\ stackCount = 0
    /\ radius = 0
    /\ sphereVertices = <<>>
    /\ sphereIndices = <<>>
    /\ meshDone = FALSE

Init == InitCamera /\ InitMesh

Next == Frame \/ MouseMove \/ Scroll

Spec == Init /\ [][Next]_vars

(* createSphere applied to every argument triple within the bounds, on     *)
(* empty output vectors                                                    *)
InitSphere ==
    /\ InitCamera
    /\ sectorCount \in 0..MaxSectorCount
    /\ stackCount \in 0..MaxStackCount
    /\ radius \in Radii
    /\ sphereVertices = <<>>
    /\ sphereIndices = <<>>
    /\ meshDone = FALSE

NextSphere == createSphere

SpecSphere == InitSphere /\ [][NextSphere]_vars

TypeOK ==
    /\ pc \in {"start", "poll"}
    /\ cameraMode \in {"FOLLOW_PLANET", "FREE"}
    /\ followedPlanetIdx \in Int
    /\ lastFrame \in 0..MaxTime


---------------------------------------------------------------------------
(* Properties *)

\* a frame in which main detects a rising edge: the key was up in the
\* previous sample (xPressedLast) and is down in this one (xPressedLast')
qEdge == ~qPressedLast /\ qPressedLast'
eEdge == ~ePressedLast /\ ePressedLast'
wasdEdge == ~wasdPressedLast /\ wasdPressedLast'

RECURSIVE nextBodyTimes(_, _)
nextBodyTimes(n, i) == IF n = 0 THEN i ELSE nextBody(nextBodyTimes(n - 1, i))

\* C1: in every reachable state followedPlanetIdx is in 1..9: never the star
\* (0) and always an index of the ten-entry planets roster.
C1_FollowedIdxInRoster ==
    /\ followedPlanetIdx \in 1..9
    /\ followedPlanetIdx \in DOMAIN planets
    /\ followedPlanetIdx < planetCount
    /\ planetCount = 10

\* the index has wrapped from 9 to 1 or stepped back from 2 with E down only
C1_Witness ==
    /\ pc = "poll"
    /\ followedPlanetIdx = 1
    /\ ePressedLast
    /\ ~qPressedLast
    /\ cameraMode = "FREE"

\* the cyclic structure of nextBody/previousBody at the followed index
C2_Cycle ==
    LET i == followedPlanetIdx
    IN  /\ nextBodyTimes(9, i) = i
        /\ \A n \in 1..8 : nextBodyTimes(n, i) # i
        /\ (i = 9 => nextBody(i) = 1)
        /\ (i = 1 => previousBody(i) = 9)
        /\ nextBody(previousBody(i)) = i
        /\ previousBody(nextBody(i)) = i
        /\ nextBody(i) \in 1..9
        /\ previousBody(i) \in 1..9

\* C2: nextBody and previousBody are mutually inverse cyclic permutations of
\* 1..9 (nine nextBody steps return to the start and fewer do not, 9 -> 1,
\* 1 -> 9 backwards), and a frame with both a Q and an E rising edge leaves
\* followedPlanetIdx unchanged.
C2_InverseCycles ==
    /\ []C2_Cycle
    /\ [][qEdge /\ eEdge => followedPlanetIdx' = followedPlanetIdx]_vars

\* both edges were taken in one frame at the wrap-around index 1
C2_Witness ==
    /\ pc = "poll"
    /\ followedPlanetIdx = 1
    /\ qPressedLast
    /\ ePressedLast

\* C3: cycling is edge-triggered: a frame steps followedPlanetIdx by E (by Q)
\* exactly when E (Q) is down and was up in the previous sample; while the
\* key stays held, and in every other step, that key does not step the index.
C3_EdgeTriggered ==
    [][/\ (~qEdge /\ ~eEdge => followedPlanetIdx' = followedPlanetIdx)
       /\ (eEdge /\ ~qEdge => followedPlanetIdx' = nextBody(followedPlanetIdx))
       /\ (qEdge /\ ~eEdge => followedPlanetIdx' = previousBody(followedPlanetIdx))
       /\ (qEdge \/ eEdge => followedPlanetIdx' \in 1..9)]_vars

\* E was pressed once and is held: the index moved from 3 to 4 and no further
C3_Witness ==
    /\ pc = "poll"
    /\ followedPlanetIdx = 4
    /\ ePressedLast
    /\ ~qPressedLast
    /\ ~wasdPressedLast
    /\ cameraMode = "FOLLOW_PLANET"
    /\ lastFrame = MaxTime

\* C4 as stated: every frame with a Q or E rising edge ends its input
\* handling in FOLLOW_PLANET, whatever the other inputs.
C4_EdgeAlwaysFollows ==
    [][qEdge \/ eEdge => cameraMode' = "FOLLOW_PLANET"]_vars

\* C4 amended: a frame with a Q or E rising edge ends its input handling in
\* FOLLOW_PLANET, from either mode, unless a W/A/S/D rising edge is sampled
\* in the same frame, in which case it ends in FREE.
C4_EdgeFollowsUnlessWasdEdge ==
    [][qEdge \/ eEdge =>
         cameraMode' = IF wasdEdge THEN "FREE" ELSE "FOLLOW_PLANET"]_vars

\* follow mode with a directional key down: the mode was FREE and a Q edge
\* retargeted the camera
C4_Witness ==
    /\ pc = "poll"
    /\ cameraMode = "FOLLOW_PLANET"
    /\ wasdPressedLast
    /\ qPressedLast
    /\ ~ePressedLast
    /\ followedPlanetIdx = 2

\* C5: a W/A/S/D rising edge in a frame whose mode is FOLLOW_PLANET at the
\* directional check (it was FOLLOW_PLANET, or a Q/E edge made it so) ends
\* the frame in FREE; without such an edge FOLLOW_PLANET is never left.
C5_WasdEdgeFrees ==
    [][/\ (wasdEdge /\ (cameraMode = "FOLLOW_PLANET" \/ qEdge \/ eEdge)
             => cameraMode' = "FREE")
       /\ (cameraMode = "FOLLOW_PLANET" /\ ~wasdEdge
             => cameraMode' = "FOLLOW_PLANET")]_vars

\* the initial follow mode was left by a directional key alone
C5_Witness ==
    /\ pc = "poll"
    /\ cameraMode = "FREE"
    /\ wasdPressedLast
    /\ ~qPressedLast
    /\ ~ePressedLast
    /\ followedPlanetIdx = 3

\* C6: FREE is left only by a frame with a Q or E rising edge; every other
\* frame and every mouse or scroll event keeps the mode FREE.
C6_FreeStaysFree ==
    [][cameraMode = "FREE" /\ ~(qEdge \/ eEdge) => cameraMode' = "FREE"]_vars

\* still FREE after the directional key was released and a scroll event
\* zoomed the free camera
C6_Witness ==
    /\ pc = "poll"
    /\ cameraMode = "FREE"
    /\ ~wasdPressedLast
    /\ ~qPressedLast
    /\ ~ePressedLast
    /\ Zoom = 1
    /\ ~firstMouse

\* C7: orbitPitch stays within [-89, 89] degrees and orbitDistance within
\* [0.5, 30.0] in every reachable state.
C7_OrbitClamped ==
    /\ orbitPitch \in -8900..8900
    /\ orbitDistance \in 5..300

\* both values have been driven onto a clamp
C7_Witness ==
    /\ orbitPitch = -8900
    /\ orbitDistance = 300
    /\ orbitYaw # 0

\* C8: a scroll event in FOLLOW_PLANET leaves orbitYaw, orbitPitch,
\* followedPlanetIdx, the camera mode and the free camera's Zoom unchanged
\* and sets orbitDistance; no step taken in FREE changes orbitYaw, orbitPitch
\* or orbitDistance, while a scroll event in FREE acts on Zoom.
C8_RoutedByMode ==
    [][/\ (Scroll /\ cameraMode = "FOLLOW_PLANET" =>
             /\ UNCHANGED <<orbitYaw, orbitPitch, followedPlanetIdx,
                            cameraMode, Zoom>>
             /\ \E yoffset \in ScrollOffsets :
                   orbitDistance' = clampDistance(orbitDistance - yoffset * 2))
       /\ (cameraMode = "FREE" =>
             UNCHANGED <<orbitYaw, orbitPitch, orbitDistance>>)]_vars

\* follow mode re-entered after scrolling and moving the mouse in both modes
C8_Witness ==
    /\ pc = "poll"
    /\ cameraMode = "FOLLOW_PLANET"
    /\ Zoom = 1
    /\ orbitDistance = 230
    /\ orbitPitch = -7000
    /\ followedPlanetIdx = 4

\* triangles emitted by createSphere whose smallest vertex lies in stack row i
rowTriangles(i) ==
    {t \in 1..(Len(sphereIndices) \div 3) :
        LET a == sphereIndices[3 * t - 2]
            b == sphereIndices[3 * t - 1]
            c == sphereIndices[3 * t]
            lo == IF a <= b /\ a <= c THEN a ELSE IF b <= c THEN b ELSE c
        IN  lo \div (sectorCount + 1) = i}

\* C9: for sectorCount, stackCount >= 3, createSphere on empty vectors pushes
\* 8 floats for each of (stackCount+1)*(sectorCount+1) vertices and 3 indices
\* for each of 2*sectorCount*(stackCount-1) triangles: sectorCount triangles
\* in the first and in the last stack row, 2*sectorCount in every other row.
C9_MeshCounts ==
    meshDone /\ sectorCount >= 3 /\ stackCount >= 3 =>
        /\ Len(sphereVertices) = 8 * (stackCount + 1) * (sectorCount + 1)
        /\ Len(sphereIndices) = 3 * (2 * sectorCount * (stackCount - 1))
        /\ \A i \in 0..(stackCount - 1) :
              Cardinality(rowTriangles(i)) =
                 IF i = 0 \/ i = stackCount - 1 THEN sectorCount
                                                ELSE 2 * sectorCount

\* a 4 x 5 sphere has been generated
C9_Witness ==
    /\ meshDone
    /\ sectorCount = 4
    /\ stackCount = 5
    /\ Len(sphereVertices) = 240
    /\ Len(sphereIndices) = 96

\* C10: createSphere called with sectorCount = 0, stackCount = 0 or
\* radius = 0 fails validation and appends nothing to its output vectors.
C10_InvalidArgsAppendNothing ==
    meshDone /\ (sectorCount = 0 \/ stackCount = 0 \/ radius = 0) =>
        /\ sphereVertices = <<>>
        /\ sphereIndices = <<>>

\* the positions the frame at time t is to use, written from the roster alone
earthAt(t) == <<[ang |-> t * planets[3].orbitSpeed, rad |-> planets[3].orbitRadius]>>
moonOffsetAt(t) == <<[ang |-> t * planets[4].orbitSpeed, rad |-> planets[4].orbitRadius]>>

\* C11: after every frame, earthPos is Earth's position at that frame's time
\* and every use of the Moon's position in the frame (moonPos, the draw loop's
\* pos for body 4, updateCameraFollow's pos when the Moon is followed) is that
\* earthPos plus the Moon's own offset at that time, never an earlier frame's
\* Earth position and never the offset alone.
C11_MoonOnCurrentEarth ==
    pc = "poll" =>
        /\ earthPos = earthAt(lastFrame)
        /\ moonPos = earthAt(lastFrame) \o moonOffsetAt(lastFrame)
        /\ drawPos[5] = earthAt(lastFrame) \o moonOffsetAt(lastFrame)
        /\ drawPos[4] = earthAt(lastFrame)
        /\ (cameraMode = "FOLLOW_PLANET" /\ followedPlanetIdx = 4 =>
              followPos = <<earthAt(lastFrame) \o moonOffsetAt(lastFrame)>>)
        /\ moonPos # moonOffsetAt(lastFrame)

\* the Moon is followed in a frame at time 1, after Earth has moved
C11_Witness ==
    /\ pc = "poll"
    /\ lastFrame = 1
    /\ cameraMode = "FOLLOW_PLANET"
    /\ followedPlanetIdx = 4
    /\ followPos = << <<[ang |-> 1000, rad |-> 2500], [ang |-> 12000, rad |-> 200]>> >>
    /\ drawPos[5] = <<[ang |-> 1000, rad |-> 2500], [ang |-> 12000, rad |-> 200]>>
    /\ moonPos = drawPos[5]

\* the orbit angle and the position of body i at time t, written from the
\* roster alone; the star sits at the origin
angleAt(i, t) == IF i = 0 THEN 0 ELSE t * planets[i].orbitSpeed
positionAt(i, t) ==
    IF i = 0 THEN <<>>
    ELSE IF i = 4 THEN earthAt(t) \o moonOffsetAt(t)
    ELSE <<[ang |-> angleAt(i, t), rad |-> planets[i].orbitRadius]>>

\* after a frame the kinematic state is a function of that frame's time
C12_FunctionOfTime ==
    pc = "poll" =>
        /\ orbitAngle = [i \in 0..9 |-> angleAt(i, lastFrame)]
        /\ earthPos = positionAt(3, lastFrame)
        /\ moonPos = positionAt(4, lastFrame)
        /\ Len(drawPos) = 10
        /\ \A i \in 0..9 : drawPos[i + 1] = positionAt(i, lastFrame)

\* C12: after every frame each body's orbitAngle is time * orbitSpeed (0 for
\* the star, drawn at the origin) and every position is the one that time
\* determines; a frame executed at the time of the previous frame, after any
\* keys, mode changes and mouse/scroll events, reproduces all angles and
\* positions.
C12_NothingCarriedButTime ==
    /\ []C12_FunctionOfTime
    /\ [][pc = "poll" /\ lastFrame' = lastFrame =>
            UNCHANGED <<orbitAngle, earthPos, moonPos, drawPos>>]_vars

\* a frame at time 1 in free mode, after mouse and scroll events
C12_Witness ==
    /\ pc = "poll"
    /\ lastFrame = 1
    /\ orbitAngle[1] = 4150
    /\ orbitAngle[9] = 6
    /\ drawPos[1] = <<>>
    /\ drawPos[10] = <<[ang |-> 6, rad |-> 75175]>>
    /\ cameraMode = "FREE"
    /\ ~firstMouse
    /\ Zoom = 1
    /\ followedPlanetIdx = 7

\* number of vertices createSphere pushed (8 floats each)
vertexCount == Len(sphereVertices) \div 8

\* C13: for sectorCount, stackCount >= 1, createSphere on empty vectors emits
\* (stackCount+1)*(sectorCount+1) vertices, a multiple of 3 indices, and every
\* index is below the number of vertices.
C13_IndicesInRange ==
    meshDone /\ sectorCount >= 1 /\ stackCount >= 1 =>
        /\ Len(sphereVertices) = 8 * vertexCount
        /\ vertexCount = (stackCount + 1) * (sectorCount + 1)
        /\ Len(sphereIndices) % 3 = 0
        /\ \A k \in 1..Len(sphereIndices) :
              sphereIndices[k] >= 0 /\ sphereIndices[k] < vertexCount

\* the smallest sphere with triangles: one sector, two stacks
C13_Witness ==
    /\ meshDone
    /\ sectorCount = 1
    /\ stackCount = 2
    /\ sphereIndices = <<1, 2, 3, 2, 4, 3>>
    /\ vertexCount = 6

===========================================================================
